---- MODULE Spec2Model ----
(***************************************************************************)
(* EMB-120 ZNTOL calculator (emb120_zntol_streamlit.py): the module tables, *)
(* get_adjust_param, and the cached calculate_zntol with its quadratic     *)
(* least-squares fit, linear correction, clamps and rounding.              *)
(*                                                                         *)
(* Numbers.  The program computes in binary floating point; the model      *)
(* computes the same expressions exactly, as rationals num/den over        *)
(* arbitrary-precision integers, so a result differs from the program's    *)
(* only where a float rounding error crosses a comparison or a rounding    *)
(* tie.  isa_dev is entered in steps of 0.5 degC: the model carries        *)
(* isa2 = 2*isa_dev.  msa and fuel_burn are whole numbers.                  *)
(***************************************************************************)
EXTENDS Integers, Sequences, FiniteSets, TLC

(***************************************************************************)
(* Arbitrary-precision integers: a sequence c of limbs, least significant  *)
(* first, of value  c[1] + c[2]*BASE + c[3]*BASE^2 + ...  In normal form    *)
(* every limb is in 0..BASE-1 except that the last may be -1 (a negative   *)
(* number), and the last limb is not 0.                                    *)
(***************************************************************************)
BASE == 10000

\* the literals of calculate_zntol and of the module head
STRUCTURAL_MTOW == 26433
MIN_MSA == 8000
MAX_MSA == 26000
ISA_MIN == -20
ISA_MAX == 30
CLEARANCE_FLOOR == 6000
CLEARANCE_OFFSET == 1000
COLD_ISA == -5
COLD_BASE == 25000
CURVE_ISA_LO == 0
CURVE_ISA_HI == 20
MIN_WEIGHT == 4600

RECURSIVE BTop(_)
BTop(k) ==
    IF k = 0 THEN << >>
    ELSE IF k = -1 THEN << -1 >>
    ELSE << k % BASE >> \o BTop(k \div BASE)

RECURSIVE BCarry(_, _, _)
BCarry(c, i, k) ==
    IF i > Len(c) THEN BTop(k)
    ELSE LET t == c[i] + k IN << t % BASE >> \o BCarry(c, i + 1, t \div BASE)

RECURSIVE BTrim(_)
BTrim(c) ==
    LET n == Len(c) IN
    IF n = 0 THEN c
    ELSE IF c[n] = 0 THEN BTrim(SubSeq(c, 1, n - 1))
    ELSE IF c[n] = -1 /\ n > 1 /\ c[n - 1] = BASE - 1
         THEN BTrim(SubSeq(c, 1, n - 2) \o << -1 >>)
    ELSE c

BNorm(c) == BTrim(BCarry(c, 1, 0))

BInt(k) == BNorm(<< k >>)

BLimb(a, i) == IF i <= Len(a) THEN a[i] ELSE 0

BMax(m, n) == IF m >= n THEN m ELSE n

BAdd(a, b) == BNorm([i \in 1..BMax(Len(a), Len(b)) |-> BLimb(a, i) + BLimb(b, i)])

BSub(a, b) == BNorm([i \in 1..BMax(Len(a), Len(b)) |-> BLimb(a, i) - BLimb(b, i)])

RECURSIVE BCol(_, _, _, _)
BCol(a, b, k, i) ==
    IF i > Len(a) \/ i > k THEN 0
    ELSE (IF k + 1 - i <= Len(b) THEN a[i] * b[k + 1 - i] ELSE 0) + BCol(a, b, k, i + 1)

BMul(a, b) ==
    IF Len(a) = 0 \/ Len(b) = 0 THEN << >>
    ELSE BNorm([k \in 1..(Len(a) + Len(b) - 1) |-> BCol(a, b, k, 1)])

\* the sign of a number in normal form: -1, 0 or 1
BSign(a) == IF Len(a) = 0 THEN 0 ELSE IF a[Len(a)] < 0 THEN -1 ELSE 1

BLess(a, b) == BSign(BSub(a, b)) < 0
BLeq(a, b) == BSign(BSub(a, b)) <= 0

(***************************************************************************)
(* Rationals num/den over the integers above, den > 0.                     *)
(***************************************************************************)
RInt(k) == [num |-> BInt(k), den |-> BInt(1)]
RFrac(n, d) == [num |-> BInt(n), den |-> BInt(d)]
RAdd(p, q) ==
    IF p.den = q.den THEN [num |-> BAdd(p.num, q.num), den |-> p.den]
    ELSE [num |-> BAdd(BMul(p.num, q.den), BMul(q.num, p.den)), den |-> BMul(p.den, q.den)]
RScale(p, k) == [num |-> BMul(p.num, BInt(k)), den |-> p.den]
RLess(p, q) == BLess(BMul(p.num, q.den), BMul(q.num, p.den))
RLeq(p, q) == BLeq(BMul(p.num, q.den), BMul(q.num, p.den))
REq(p, q) == BMul(p.num, q.den) = BMul(q.num, p.den)
RMin(p, q) == IF RLess(q, p) THEN q ELSE p
RMax(p, q) == IF RLess(p, q) THEN q ELSE p

\* the largest q in lo..hi with q <= p, for lo <= p < hi + 1
RECURSIVE RFloorIn(_, _, _)
RFloorIn(p, lo, hi) ==
    IF lo = hi THEN lo
    ELSE LET mid == (lo + hi + 1) \div 2 IN
         IF RLeq(RInt(mid), p) THEN RFloorIn(p, mid, hi) ELSE RFloorIn(p, lo, mid - 1)

\* Python's round(x) of a float: the nearest integer, a tie going to the even one
Round(p) ==
    LET f == RFloorIn(p, 0, 2 * STRUCTURAL_MTOW)
        twice == RScale(p, 2)
        mid == RInt(2 * f + 1)
    IN  IF RLess(twice, mid) THEN f
        ELSE IF RLess(mid, twice) THEN f + 1
        ELSE IF f % 2 = 0 THEN f ELSE f + 1


(***************************************************************************)
(* Module data (lines 10-48).  Weights are pounds, altitudes feet.  A      *)
(* slope or intercept of adjust_params is held in units of 1/PARAM_SCALE.  *)
(***************************************************************************)
PARAM_SCALE == 10000

InitLowData ==
    (0 :> (23000 :> 19350 @@ 22000 :> 20100 @@ 20000 :> 21550 @@ 18000 :> 23000 @@ 16000 :> 24550))
 @@ (5 :> (22000 :> 19350 @@ 20000 :> 20750 @@ 18000 :> 22200 @@ 16000 :> 23700 @@ 14000 :> 25200
           @@ 12000 :> 26433))
 @@ (10 :> (20000 :> 20000 @@ 18000 :> 21450 @@ 16000 :> 22950 @@ 14000 :> 24400 @@ 12000 :> 25750
            @@ 10000 :> 26433))
 @@ (15 :> (20000 :> 19300 @@ 18000 :> 20650 @@ 16000 :> 22000 @@ 14000 :> 23450 @@ 12000 :> 24850
            @@ 10000 :> 26433))
 @@ (20 :> (18000 :> 19900 @@ 16000 :> 21200 @@ 14000 :> 22500 @@ 12000 :> 23950 @@ 10000 :> 25300
            @@ 8000 :> 26433))

InitHighIsaGrid == << -20, -15, -10, -5, 0, 5, 10, 15, 20, 25, 30 >>

InitHighMsaGrid == << 19000, 20000, 21000, 22000, 23000, 24000, 25000, 26000 >>

InitHighTow == <<
    << 25000, 25000, 25000, 25000, 25000, 25000, 25000, 25000 >>,
    << 25000, 25000, 25000, 25000, 25000, 25000, 25000, 25000 >>,
    << 25000, 25000, 25000, 25000, 25000, 25000, 25000, 25000 >>,
    << 24600, 23100, 21700, 20300, 19000, 17700, 16400, 15100 >>,
    << 23600, 22200, 20800, 19400, 18000, 16700, 15400, 14100 >>,
    << 22600, 21100, 19700, 18300, 17000, 15700, 14300, 13000 >>,
    << 21600, 20000, 18600, 17200, 15900, 14500, 13100, 11700 >>,
    << 20600, 19000, 17500, 16000, 14700, 13300, 11900, 10400 >>,
    << 19400, 17900, 16300, 14900, 13200, 11800, 10400, 8800 >>,
    << 18200, 16600, 15000, 13500, 12000, 10400, 8700, 6900 >>,
    << 16400, 14800, 13200, 11600, 9900, 8100, 6400, 4600 >> >>

InitAdjustParams ==
    (-10 :> [slope |-> -2741, intercept |-> 4174 * PARAM_SCALE])
 @@ (-5 :> [slope |-> -2633, intercept |-> 4066 * PARAM_SCALE])
 @@ (0 :> [slope |-> -3079, intercept |-> 5653 * PARAM_SCALE])
 @@ (5 :> [slope |-> -270, intercept |-> 270 * PARAM_SCALE])
 @@ (10 :> [slope |-> -40, intercept |-> 40 * PARAM_SCALE])
 @@ (15 :> [slope |-> 80, intercept |-> 123 * PARAM_SCALE])
 @@ (20 :> [slope |-> 494, intercept |-> (0 - 306) * PARAM_SCALE])

\* sorted(S) for a finite set of integers
RECURSIVE Sorted(_)
Sorted(S) ==
    IF S = {} THEN << >>
    ELSE LET m == CHOOSE v \in S : \A u \in S : v <= u IN << m >> \o Sorted(S \ {m})

(***************************************************************************)
(* get_adjust_param (lines 53-73) at the temperature isa2/2.  The result   *)
(* is the exact value of the returned expression.                          *)
(***************************************************************************)
get_adjust_param(ap, isa2, param) ==
    LET isas == Sorted(DOMAIN ap)
        n == Len(isas)
        P(i) == ap[isas[i]][param]
        \* np.searchsorted(isas, isa): how many keys lie below isa
        idx == Cardinality({i \in 1..n : 2 * isas[i] < isa2})
        Line(i, j, k) ==
            RAdd(RFrac(P(k), PARAM_SCALE),
                 RFrac((P(j) - P(i)) * (isa2 - 2 * isas[k]),
                       PARAM_SCALE * 2 * (isas[j] - isas[i])))
    IN  IF isa2 % 2 = 0 /\ (isa2 \div 2) \in DOMAIN ap
            THEN RFrac(ap[isa2 \div 2][param], PARAM_SCALE)
        ELSE IF idx = 0 THEN Line(1, 2, 1)
        ELSE IF idx = n THEN Line(n - 1, n, n)
        ELSE Line(idx, idx + 1, idx)

(***************************************************************************)
(* The merged points of one temperature row (lines 108-122): a function    *)
(* from altitude to weight, a weight being a fraction [n, d] of small      *)
(* integers since line 120 halves a sum.                                   *)
(***************************************************************************)
FromLow(ld, isa2c) ==
    IF isa2c % 2 = 0 /\ (isa2c \div 2) \in DOMAIN ld
        THEN [m \in DOMAIN ld[isa2c \div 2] |-> [n |-> ld[isa2c \div 2][m], d |-> 1]]
        ELSE << >>

RowIdx(grid, isa2c) == {i \in 1..Len(grid) : 2 * grid[i] = isa2c}

RECURSIVE FromHigh(_, _, _, _)
FromHigh(points, mgrid, row, col) ==
    IF col > Len(mgrid) THEN points
    ELSE LET msa_high == mgrid[col]
             val == row[col]
             new == IF msa_high \in DOMAIN points
                        THEN [n |-> points[msa_high].n + val * points[msa_high].d,
                              d |-> 2 * points[msa_high].d]
                        ELSE [n |-> val, d |-> 1]
         IN  FromHigh([m \in DOMAIN points \cup {msa_high} |->
                           IF m = msa_high THEN new ELSE points[m]],
                      mgrid, row, col + 1)

MergePoints(ld, igrid, mgrid, tow, isa2c) ==
    LET row_idx == RowIdx(igrid, isa2c)
        low == FromLow(ld, isa2c)
    IN  IF row_idx # {}
            THEN FromHigh(low, mgrid, tow[CHOOSE i \in row_idx : \A j \in row_idx : i <= j], 1)
            ELSE low

(***************************************************************************)
(* np.polyfit(msas, weights, deg=2) (line 130): the least-squares          *)
(* quadratic, from the normal equations by Cramer's rule.  The result is   *)
(* the three coefficients' numerators over one denominator.                *)
(***************************************************************************)
RECURSIVE MaxDen(_, _)
MaxDen(points, S) ==
    IF S = {} THEN 1
    ELSE LET m == CHOOSE v \in S : TRUE
             r == MaxDen(points, S \ {m})
         IN  IF points[m].d > r THEN points[m].d ELSE r

RECURSIVE BPow(_, _)
BPow(xv, k) == IF k = 0 THEN BInt(1) ELSE BMul(BInt(xv), BPow(xv, k - 1))

\* the sum of a sequence of numbers: limb by limb, then one carry pass
RECURSIVE LimbSum(_, _, _)
LimbSum(terms, i, j) ==
    IF j > Len(terms) THEN 0 ELSE BLimb(terms[j], i) + LimbSum(terms, i, j + 1)

RECURSIVE MaxLen(_, _)
MaxLen(terms, j) ==
    IF j > Len(terms) THEN 0 ELSE BMax(Len(terms[j]), MaxLen(terms, j + 1))

BSum(terms) == BNorm([i \in 1..MaxLen(terms, 1) |-> LimbSum(terms, i, 1)])

\* sum of x^k and of x^k * y over the points, y in units of 1/L
SumPow(msas, k) == BSum([j \in 1..Len(msas) |-> BPow(msas[j], k)])

SumPowY(msas, points, L, k) ==
    BSum([j \in 1..Len(msas) |->
            BMul(BPow(msas[j], k), BInt(points[msas[j]].n * (L \div points[msas[j]].d)))])

Det3(a, b, c, d, e, f, g, h, i) ==
    BAdd(BSub(BMul(a, BSub(BMul(e, i), BMul(f, h))),
              BMul(b, BSub(BMul(d, i), BMul(f, g)))),
         BMul(c, BSub(BMul(d, h), BMul(e, g))))

Moments(points) ==
    LET msas == Sorted(DOMAIN points)
        L == MaxDen(points, DOMAIN points)
    IN  [L |-> L,
         S0 |-> SumPow(msas, 0), S1 |-> SumPow(msas, 1), S2 |-> SumPow(msas, 2),
         S3 |-> SumPow(msas, 3), S4 |-> SumPow(msas, 4),
         T0 |-> SumPowY(msas, points, L, 0), T1 |-> SumPowY(msas, points, L, 1),
         T2 |-> SumPowY(msas, points, L, 2)]

Cramer(m) ==
    [a |-> Det3(m.T2, m.S3, m.S2, m.T1, m.S2, m.S1, m.T0, m.S1, m.S0),
     b |-> Det3(m.S4, m.T2, m.S2, m.S3, m.T1, m.S1, m.S2, m.T0, m.S0),
     c |-> Det3(m.S4, m.S3, m.T2, m.S3, m.S2, m.T1, m.S2, m.S1, m.T0),
     den |-> BMul(BInt(m.L), Det3(m.S4, m.S3, m.S2, m.S3, m.S2, m.S1, m.S2, m.S1, m.S0))]

\* (the moments are evaluated once, then the four determinants)
polyfit(points) == CHOOSE fit \in {Cramer(m) : m \in {Moments(points)}} : TRUE

\* np.poly1d(fit)(v) (lines 131-134)
poly(fit, v) ==
    [num |-> BAdd(BAdd(BMul(fit.a, BMul(BInt(v), BInt(v))), BMul(fit.b, BInt(v))), fit.c),
     den |-> fit.den]


(***************************************************************************)
(* calculate_zntol (lines 79-156).  Every piece returns exact values; the  *)
(* returned dict is a record, its "error" being "None" on success.         *)
(***************************************************************************)
ERR_ISA == "ISA deviation out of range (-20 to +30 degC)"
ERR_MSA == "MSA out of range (8,000-26,000 ft)"
ERR_FUEL == "Fuel burn cannot be negative"
ERR_NODATA == "No data available for this ISA deviation"
NONE == "None"

\* Validate without the check of line 84
ValidateNoFuel(isa2, msa, fuel_burn) ==
    IF isa2 < 2 * ISA_MIN \/ isa2 > 2 * ISA_MAX THEN ERR_ISA
    ELSE IF msa < MIN_MSA \/ msa > MAX_MSA THEN ERR_MSA
    ELSE NONE

\* lines 80-85: the first failing range check, or NONE
Validate(isa2, msa, fuel_burn) ==
    IF isa2 < 2 * ISA_MIN \/ isa2 > 2 * ISA_MAX THEN ERR_ISA
    ELSE IF msa < MIN_MSA \/ msa > MAX_MSA THEN ERR_MSA
    ELSE IF fuel_burn < 0 THEN ERR_FUEL
    ELSE NONE

\* EffectiveMsa without the subtraction of line 89
EffectiveMsaNoOffset(msa) == msa

\* lines 88-91
EffectiveMsa(msa) == IF msa > CLEARANCE_FLOOR THEN msa - CLEARANCE_OFFSET ELSE msa

\* Correction without the intercept
CorrectionSlopeOnly(ap, t2, effective_msa) ==
    LET corr_slope == get_adjust_param(ap, t2, "slope")
    IN  [num |-> BMul(corr_slope.num, BInt(effective_msa)), den |-> corr_slope.den]

\* lines 97-99 and 137-139: slope * effective_msa + intercept at temperature t2/2
Correction(ap, t2, effective_msa) ==
    LET corr_slope == get_adjust_param(ap, t2, "slope")
        corr_int == get_adjust_param(ap, t2, "intercept")
    IN  RAdd([num |-> BMul(corr_slope.num, BInt(effective_msa)), den |-> corr_slope.den],
             corr_int)

\* line 104: np.clip(isa_dev, 0, 20), doubled
IsaClamp(isa2) ==
    IF isa2 < 2 * CURVE_ISA_LO THEN 2 * CURVE_ISA_LO
    ELSE IF isa2 > 2 * CURVE_ISA_HI THEN 2 * CURVE_ISA_HI
    ELSE isa2

\* line 105 and line 141
CurveSource(isa2, isa_clamp) ==
    IF isa2 = isa_clamp THEN << "curve fit (with test adjustment)" >>
    ELSE << "curve fit (clamped ISA", isa_clamp, "/2 degC) (with test adjustment)" >>

\* FinalCaps without the min of line 144
FinalCapsNoCeiling(w) == RMax(w, RInt(MIN_WEIGHT))

\* line 144
FinalCaps(w) == RMin(RMax(w, RInt(MIN_WEIGHT)), RInt(STRUCTURAL_MTOW))

\* Assemble with int() in place of round() for the weights
AssembleTruncating(w_obstacle_max, fuel_burn, source, effective_msa) ==
    LET zntol_uncapped == RAdd(w_obstacle_max, RInt(fuel_burn))
        zntol == RMin(zntol_uncapped, RInt(STRUCTURAL_MTOW))
    IN  [w_obstacle_max |-> RFloorIn(w_obstacle_max, 0, 2 * STRUCTURAL_MTOW),
         zntol |-> RFloorIn(zntol, 0, 2 * STRUCTURAL_MTOW),
         capped |-> RLess(RInt(STRUCTURAL_MTOW), zntol_uncapped),
         source |-> source,
         effective_msa |-> Round(RInt(effective_msa)),
         error |-> NONE]

\* lines 146-156 from the capped weight
Assemble(w_obstacle_max, fuel_burn, source, effective_msa) ==
    LET zntol_uncapped == RAdd(w_obstacle_max, RInt(fuel_burn))
        zntol == RMin(zntol_uncapped, RInt(STRUCTURAL_MTOW))
    IN  [w_obstacle_max |-> Round(w_obstacle_max),
         zntol |-> Round(zntol),
         capped |-> RLess(RInt(STRUCTURAL_MTOW), zntol_uncapped),
         source |-> source,
         effective_msa |-> Round(RInt(effective_msa)),
         error |-> NONE]

\* low_data had line 108 bound points to the row itself instead of a fresh dict:
\* the row would receive the merged points
LowDataAliased(ld, isa_clamp, points) ==
    IF isa_clamp % 2 = 0 /\ (isa_clamp \div 2) \in DOMAIN ld
        THEN [ld EXCEPT ![isa_clamp \div 2] =
                  [m \in DOMAIN points |-> points[m].n \div points[m].d]]
        ELSE ld

\* the table low_data once the points of a row were collected: line 108 starts
\* from a fresh dict and update() copies, so the table is left as it was
LowDataAfter(ld, isa_clamp, points) == ld

\* the cold cap with a structural short-circuit at or below 15000
ColdCapStructural(ap, effective_msa) ==
    LET correction == Correction(ap, 2 * COLD_ISA, effective_msa)
    IN  IF effective_msa <= 15000
            THEN [base |-> RInt(STRUCTURAL_MTOW), correction |-> RInt(0),
                  w_raw |-> RInt(STRUCTURAL_MTOW)]
            ELSE [base |-> RInt(COLD_BASE), correction |-> correction,
                  w_raw |-> RAdd(RInt(COLD_BASE), correction)]

\* lines 94-101: the cold cap
ColdCap(ap, effective_msa) ==
    LET correction == Correction(ap, 2 * COLD_ISA, effective_msa)
    IN  [base |-> RInt(COLD_BASE), correction |-> correction,
         w_raw |-> RAdd(RInt(COLD_BASE), correction)]

\* lines 127-140: fit, evaluate, correct
CurveFit(ap, points, isa_clamp, effective_msa) ==
    LET Sum(base, correction) ==
            [base |-> base, correction |-> correction, w_raw |-> RAdd(base, correction)]
    IN  CHOOSE w \in {Sum(base, correction) :
                          base \in {poly(fit, effective_msa) : fit \in {polyfit(points)}},
                          correction \in {Correction(ap, isa_clamp, effective_msa)}} : TRUE

\* lines 80-144 for one argument triple: the locals the body has computed when
\* it reaches a return (path tells which return).  Each local is evaluated
\* once, in statement order.
Locals(ld, igrid, mgrid, tow, ap, isa2, msa, fuel_burn) ==
    LET err == Validate(isa2, msa, fuel_burn)
        effective_msa == EffectiveMsa(msa)
        isa_clamp == IsaClamp(isa2)
        args == [isa2 |-> isa2, msa |-> msa, fuel_burn |-> fuel_burn]
        Weight(path, source, points, w, capped) ==
            [path |-> path, args |-> args, err |-> NONE,
             effective_msa |-> effective_msa,
             passthrough |-> ~(msa > CLEARANCE_FLOOR),
             isa_clamp |-> isa_clamp, points |-> points, source |-> source,
             base |-> w.base, correction |-> w.correction,
             w_raw |-> w.w_raw, w_obstacle_max |-> capped]
        Capped(path, source, points, w) ==
            CHOOSE f \in {Weight(path, source, points, w, capped) :
                              capped \in {FinalCaps(w.w_raw)}} : TRUE
        Curve(points) ==
            IF DOMAIN points = {}
                THEN [path |-> "nodata", args |-> args, err |-> ERR_NODATA,
                      effective_msa |-> effective_msa,
                      passthrough |-> ~(msa > CLEARANCE_FLOOR),
                      isa_clamp |-> isa_clamp, points |-> points]
                ELSE CHOOSE f \in {Capped("curve", CurveSource(isa2, isa_clamp), points, w) :
                                       w \in {CurveFit(ap, points, isa_clamp, effective_msa)}}
                         : TRUE
    IN  IF err # NONE
            THEN [path |-> "rejected", args |-> args, err |-> err]
        ELSE IF isa2 <= 2 * COLD_ISA
            THEN CHOOSE f \in {Capped("cold", << "cold cap (with test adjustment)" >>, << >>, w) :
                                   w \in {ColdCap(ap, effective_msa)}} : TRUE
        ELSE CHOOSE f \in {Curve(points) :
                               points \in {MergePoints(ld, igrid, mgrid, tow, isa_clamp)}} : TRUE

\* the dict a run returns (lines 81, 83, 85, 125, 146-156)
Return(f) ==
    IF f.err # NONE THEN [error |-> f.err]
    ELSE Assemble(f.w_obstacle_max, f.args.fuel_burn, f.source, f.effective_msa)

\* low_data as a run leaves it
LowDataLeft(ld, f) ==
    IF f.path \in {"curve", "nodata"} THEN LowDataAfter(ld, f.isa_clamp, f.points) ELSE ld

(***************************************************************************)
(* State: the module tables, the store of st.cache_data (line 78), the     *)
(* last call with the dict it got, the locals of the last run of the body, *)
(* and, as history, the dict each argument triple got the first time.      *)
(***************************************************************************)
VARIABLES low_data, high_isa_grid, high_msa_grid, high_tow, adjust_params,
          cache, call, res, frame, first, calls

vars == << low_data, high_isa_grid, high_msa_grid, high_tow, adjust_params,
           cache, call, res, frame, first, calls >>

tables == << low_data, high_isa_grid, high_msa_grid, high_tow, adjust_params >>

\* bounds of the model: the calls of one behaviour of Spec, and the size of the
\* input grid of SpecQ
MaxCalls == 3
IsaSteps == 22
MsaSteps == 20
FuelSteps == 2

Init ==
    /\ low_data = InitLowData
    /\ high_isa_grid = InitHighIsaGrid
    /\ high_msa_grid = InitHighMsaGrid
    /\ high_tow = InitHighTow
    /\ adjust_params = InitAdjustParams
    /\ cache = << >>
    /\ call = [made |-> FALSE]
    /\ res = [error |-> NONE]
    /\ frame = [path |-> "none"]
    /\ first = << >>
    /\ calls = 0

\* calculate_zntol(isa_dev, msa, fuel_burn) through st.cache_data: a stored
\* triple returns its stored dict without running the body
Call(isa2, msa, fuel_burn) ==
    LET key == << isa2, msa, fuel_burn >> IN
    IF key \in DOMAIN cache
    THEN /\ res' = cache[key]
         /\ call' = [made |-> TRUE, key |-> key, hit |-> TRUE]
         /\ calls' = calls + 1
         /\ UNCHANGED << tables, cache, frame, first >>
    ELSE /\ frame' = Locals(low_data, high_isa_grid, high_msa_grid, high_tow, adjust_params,
                            isa2, msa, fuel_burn)
         /\ res' = Return(frame')
         /\ low_data' = LowDataLeft(low_data, frame')
         /\ cache' = (key :> res') @@ cache
         /\ first' = (key :> res') @@ first
         /\ call' = [made |-> TRUE, key |-> key, hit |-> FALSE]
         /\ calls' = calls + 1
         /\ UNCHANGED << high_isa_grid, high_msa_grid, high_tow, adjust_params >>

\* SpecQ: one query, over a grid of inputs that crosses every range check,
\* every temperature row and the half-degree temperatures between rows
QIsa == {2 * ISA_MIN - 5 + 5 * k : k \in 0..IsaSteps}
QMsa == {MIN_MSA - 1000 + 1000 * k : k \in 0..MsaSteps}
QFuel == {-1, 0} \cup {1001 * k : k \in 1..FuelSteps}

NextQ ==
    /\ calls = 0
    /\ \E isa2 \in QIsa, msa \in QMsa, fuel_burn \in QFuel : Call(isa2, msa, fuel_burn)

SpecQ == Init /\ [][NextQ]_vars

\* Spec: up to MaxCalls calls in any order, repeats included, over a cold, a
\* curve-fit (overlapping rows) and a between-rows temperature, two altitudes,
\* a valid and an invalid fuel burn
SIsa == {2 * COLD_ISA, 2 * CURVE_ISA_LO, 2 * CURVE_ISA_LO + 5}
SMsa == {MIN_MSA, MIN_MSA + 2000}
SFuel == {-1, 2000}

Next ==
    /\ calls < MaxCalls
    /\ \E isa2 \in SIsa, msa \in SMsa, fuel_burn \in SFuel : Call(isa2, msa, fuel_burn)

Spec == Init /\ [][Next]_vars

(***************************************************************************)
(* Properties.  Ran: the last call ran the body, so frame holds its        *)
(* locals.  Ok: it returned a weight.                                      *)
(***************************************************************************)
Ran == call.made /\ ~call.hit
Accepted == Ran /\ frame.path \in {"cold", "curve", "nodata"}
Ok == Ran /\ res.error = NONE

\* z is the integer nearest to the rational p, a tie going to the even integer
IsNearest(z, p) ==
    LET t == RScale(p, 2) IN
    /\ RLeq(RInt(2 * z - 1), t)
    /\ RLeq(t, RInt(2 * z + 1))
    /\ (REq(t, RInt(2 * z - 1)) \/ REq(t, RInt(2 * z + 1))) => z % 2 = 0

\* C1: every call that returns no error returns w_obstacle_max in [4600, 26433]
\* and zntol <= 26433, on the cold-cap path and on the curve-fit path.
C1_WeightsClamped ==
    (call.made /\ res.error = NONE) =>
        /\ res.w_obstacle_max >= MIN_WEIGHT
        /\ res.w_obstacle_max <= STRUCTURAL_MTOW
        /\ res.zntol <= STRUCTURAL_MTOW

\* a curve-fit run whose corrected weight exceeded the structural maximum and
\* was returned as the maximum
C1_Witness ==
    /\ Ok
    /\ frame.path = "curve"
    /\ RLess(RInt(STRUCTURAL_MTOW), frame.w_raw)
    /\ res.w_obstacle_max = STRUCTURAL_MTOW

\* C2 as stated: a query that returns a weight at an effective altitude at or
\* below 15000 returns the structural maximum 26433.
C2_StructuralShortCircuit ==
    (Ok /\ frame.effective_msa <= 15000) => res.w_obstacle_max = STRUCTURAL_MTOW

\* C2 as amended: no altitude threshold exists.  A query that returns a weight
\* takes the cold-cap path exactly when isa_dev <= -5 and the curve-fit path
\* otherwise, at every effective altitude; its weight is base + correction
\* clamped, the base being 25000 on the cold-cap path and the fitted curve's
\* value on the other, so it is 26433 when base + correction >= 26433 and below 26433 when
\* base + correction < 26432.5.
C2_PathByTemperatureOnly ==
    Ok =>
        /\ frame.path = (IF frame.args.isa2 <= 2 * COLD_ISA THEN "cold" ELSE "curve")
        /\ frame.path = "cold" => REq(frame.base, RInt(COLD_BASE))
        /\ frame.path = "curve" => DOMAIN frame.points # {}
        /\ REq(frame.w_raw, RAdd(frame.base, frame.correction))
        /\ RLeq(RInt(STRUCTURAL_MTOW), frame.w_raw) => res.w_obstacle_max = STRUCTURAL_MTOW
        /\ RLess(frame.w_raw, RFrac(2 * STRUCTURAL_MTOW - 1, 2))
               => res.w_obstacle_max < STRUCTURAL_MTOW

\* a query at effective altitude exactly 15000 that returns less than the
\* structural maximum
C2_Witness ==
    /\ Ok
    /\ frame.effective_msa = 15000
    /\ res.w_obstacle_max < STRUCTURAL_MTOW

\* C3: a call with isa_dev outside [-20, 30], msa outside [8000, 26000] or
\* fuel_burn < 0 returns a dict that holds an error and nothing else, having
\* computed no local (no lookup, fit or correction); when fuel_burn is the only
\* invalid input the error is the negative-fuel-burn one.
C3_RejectedEarly ==
    LET isa2 == call.key[1]
        msa == call.key[2]
        fuel_burn == call.key[3]
        badIsa == isa2 < 2 * ISA_MIN \/ isa2 > 2 * ISA_MAX
        badMsa == msa < MIN_MSA \/ msa > MAX_MSA
    IN  (Ran /\ (badIsa \/ badMsa \/ fuel_burn < 0)) =>
            /\ DOMAIN res = {"error"}
            /\ res.error \in {ERR_ISA, ERR_MSA, ERR_FUEL}
            /\ DOMAIN frame = {"path", "args", "err"}
            /\ (~badIsa /\ ~badMsa) => res.error = ERR_FUEL

\* a call whose only invalid input is a negative fuel burn, rejected
C3_Witness ==
    /\ Ran
    /\ call.key[1] = 0 /\ call.key[2] = MIN_MSA /\ call.key[3] < 0
    /\ res = [error |-> ERR_FUEL]

\* C4 as stated: with w the clamped weight, capped is true exactly when
\* w + fuel_burn > 26433, capped implies zntol = 26433, and not capped implies
\* the returned zntol is w + fuel_burn.
C4_ZntolIsSum ==
    Ok =>
        LET sum == RAdd(frame.w_obstacle_max, RInt(frame.args.fuel_burn)) IN
        /\ res.capped <=> RLess(RInt(STRUCTURAL_MTOW), sum)
        /\ res.capped => res.zntol = STRUCTURAL_MTOW
        /\ ~res.capped => REq(RInt(res.zntol), sum)

\* C4 as amended: capped is true exactly when w + fuel_burn > 26433; capped
\* implies the returned zntol is 26433; not capped implies the returned zntol
\* is w + fuel_burn rounded to the nearest integer (a tie to the even one); the
\* returned w_obstacle_max is w rounded the same way, whatever the fuel burn.
C4_ZntolIsRoundedSum ==
    Ok =>
        LET sum == RAdd(frame.w_obstacle_max, RInt(frame.args.fuel_burn)) IN
        /\ res.capped <=> RLess(RInt(STRUCTURAL_MTOW), sum)
        /\ res.capped => res.zntol = STRUCTURAL_MTOW
        /\ ~res.capped => IsNearest(res.zntol, sum)
        /\ IsNearest(res.w_obstacle_max, frame.w_obstacle_max)

\* an uncapped result whose w + fuel_burn lies exactly between two integers
C4_Witness ==
    /\ Ok
    /\ ~res.capped
    /\ frame.args.fuel_burn > 0
    /\ REq(RScale(RAdd(frame.w_obstacle_max, RInt(frame.args.fuel_burn)), 2),
           RInt(2 * res.zntol - 1))

\* C5: every accepted query uses effective_msa = msa - 1000, which lies in
\* [7000, 25000]; the pass-through branch is not taken; a returned
\* effective_msa is that value.
C5_EffectiveMsa ==
    Accepted =>
        /\ frame.effective_msa = frame.args.msa - 1000
        /\ frame.effective_msa >= 7000 /\ frame.effective_msa <= 25000
        /\ ~frame.passthrough
        /\ res.error = NONE => res.effective_msa = frame.args.msa - 1000

\* msa 21000 answered with effective altitude 20000
C5_Witness ==
    /\ Ok
    /\ frame.args.msa = 21000
    /\ res.effective_msa = 20000

\* C6: after any sequence of calls the five tables hold their initial values,
\* and a call returns what the first call with the same arguments returned,
\* which is what the body computes from the initial tables: the cache never
\* changes a returned value.
C6_TablesAndResultsStable ==
    /\ low_data = InitLowData
    /\ high_isa_grid = InitHighIsaGrid
    /\ high_msa_grid = InitHighMsaGrid
    /\ high_tow = InitHighTow
    /\ adjust_params = InitAdjustParams
    /\ call.made =>
           /\ res = first[call.key]
           /\ res = Return(Locals(InitLowData, InitHighIsaGrid, InitHighMsaGrid, InitHighTow,
                                  InitAdjustParams, call.key[1], call.key[2], call.key[3]))

\* a weight served from the cache after a curve-fit run with other arguments
\* (a row whose low and high points overlap and were averaged) came in between
C6_Witness ==
    /\ call.made /\ call.hit
    /\ res.error = NONE
    /\ frame.path = "curve"
    /\ \E m \in DOMAIN frame.points : frame.points[m].d = 2
    /\ << frame.args.isa2, frame.args.msa, frame.args.fuel_burn >> # call.key

\* C7: for a fixed isa_dev the returned w_obstacle_max does not increase with
\* msa: of two answered queries with the same isa_dev, the one at the higher
\* msa returns no more weight.
C7_MonotoneInMsa ==
    \A k1, k2 \in DOMAIN cache :
        (k1[1] = k2[1] /\ k1[2] < k2[2] /\ cache[k1].error = NONE /\ cache[k2].error = NONE)
            => cache[k1].w_obstacle_max >= cache[k2].w_obstacle_max

\* the sampled temperature (doubled) nearest to isa2, a tie going to the one of
\* lower magnitude
Abs(v) == IF v < 0 THEN 0 - v ELSE v
NearestSampled(isa2) ==
    LET rows == {2 * t : t \in DOMAIN low_data}
                    \cup {2 * high_isa_grid[i] : i \in 1..Len(high_isa_grid)}
    IN  CHOOSE r \in rows : \A q \in rows :
            \/ Abs(isa2 - r) < Abs(isa2 - q)
            \/ (Abs(isa2 - r) = Abs(isa2 - q) /\ Abs(r) <= Abs(q))

\* C8: an accepted query that reaches the point tables (isa_dev > -5) gets a
\* weight computed from the points of the one sampled row nearest to isa_dev.
C8_NearestRowUsed ==
    (Accepted /\ frame.args.isa2 > 2 * COLD_ISA) =>
        /\ frame.path = "curve"
        /\ frame.points = MergePoints(low_data, high_isa_grid, high_msa_grid, high_tow,
                                      NearestSampled(frame.args.isa2))

C10_MergedPointsMonotone ==
    (Ran /\ frame.path = "curve") =>
        \A a1, a2 \in DOMAIN frame.points :
            a1 < a2 => frame.points[a1].n * frame.points[a2].d
                           >= frame.points[a2].n * frame.points[a1].d
====
